---- MODULE Spec2Model ----
(***************************************************************************)
(* Model of nerf/network.py: MLP, HashEncoder and the MeRF-like            *)
(* NeRFNetwork (common_forward, forward, density, apply_total_variation,   *)
(* get_params).                                                            *)
(*                                                                         *)
(* Tensors are sequences of integers.  Logits are integers; the outputs of *)
(* sigmoid are fixed-point numbers with Scale units for 1.0; the output of *)
(* trunc_exp is fixed-point with 1000 units for 1.0.  Parameters           *)
(* (weights) are part of the network object `self`, which is a state       *)
(* variable: every call threads `self` through the modules it evaluates    *)
(* and stores the object it ends with.                                     *)
(***************************************************************************)
EXTENDS Integers, Sequences, FiniteSets, TLC

\* ------------------------------------------------------------------ bounds
NumPoints     == 3   \* number of distinct sample points x
NumDirs       == 2   \* number of distinct view directions d
MaxProposal   == 2   \* proposal argument ranges over -MaxProposal..MaxProposal
MaxLr         == 1   \* lr / lambda_tv range over 1..MaxLr
MaxBound      == 1   \* scene bound ranges over 1..MaxBound
NumSeeds      == 2   \* number of distinct parameter initialisations
Scale         == 4   \* fixed-point units of 1.0 for sigmoid outputs
ModelLevels   == 1   \* num_levels of every grid encoder, scaled down
ModelHidden   == 2   \* hidden width of every MLP, scaled down
ModelMultires == 1   \* multires of the frequency encoder, scaled down
MaxLayers     == 3   \* MLP.num_layers ranges over 1..MaxLayers
MaxDim        == 2   \* MLP dims range over 1..MaxDim
MaxVal        == 1   \* MLP input components range over -MaxVal..MaxVal

\* --------------------------------------------------------------- constants
FeatDim  == 8        \* output_dim of the four spatial encoders
LevelDim == 2        \* level_dim of every grid encoder

None == <<>>         \* Python None (also: an absent tensor)

\* a tensor with its elements computed (a finite sequence)
Tensor(f) == f \o <<>>

Max(a, b) == IF a >= b THEN a ELSE b
Min(a, b) == IF a <= b THEN a ELSE b

RECURSIVE SumSeq(_)
SumSeq(s) == IF s = <<>> THEN 0 ELSE s[1] + SumSeq(Tail(s))

Dot(w, x) == SumSeq(Tensor([i \in 1..Len(w) |-> w[i] * x[i]]))

VecAdd(a, b) == Tensor([i \in 1..Len(a) |-> a[i] + b[i]])

\* ------------------------------------------------------------ torch / F.*
\* F.relu
relu(x) == Tensor([i \in 1..Len(x) |-> Max(x[i], 0)])

\* torch.sigmoid, elementwise, as the piecewise-linear 1/2 + v/4 cut to
\* [0,1]; float32 sigmoid reaches both 0.0 and 1.0.
sigmoid1(v) == Max(0, Min(Scale, (Scale * (2 + v)) \div 4))
sigmoid(x) == Tensor([i \in 1..Len(x) |-> sigmoid1(x[i])])

\* Tensor.clamp(lo, hi)
clamp(x, lo, hi) == Tensor([i \in 1..Len(x) |-> Max(lo, Min(hi, x[i]))])

\* activation.trunc_exp: forward is exp(x).  Table of floor(1000 * e^v);
\* below the table exp underflows to 0, above it overflows to +inf.
Inf == 1000000000
ExpTable == <<0, 0, 2, 6, 18, 49, 135, 367, 1000, 2718, 7389, 20085, 54598,
              148413, 403428, 1096633, 2980957>>
trunc_exp(v) == IF v < -8 THEN 0 ELSE IF v > 8 THEN Inf ELSE ExpTable[v + 9]

\* ------------------------------------------------------------------- MLP
\* nn.Linear(n_in, n_out, bias): the random initial weights are drawn from
\* {-1,0,1} by the seed.
InitWeight(seed, o, i) ==
    LET v == (3 * seed + o * o + 2 * i + o * i + (o \div 3)) % 5
    IN IF v \in {0, 4} THEN -1 ELSE IF v \in {1, 3} THEN 1 ELSE 0

NewLinear(n_in, n_out, bias, seed) ==
    [W |-> Tensor([o \in 1..n_out |-> Tensor([i \in 1..n_in |-> InitWeight(seed, o, i)])]),
     b |-> Tensor([o \in 1..n_out |-> IF bias THEN InitWeight(seed, o, 0) ELSE 0])]

\* nn.Linear.forward: y = x W^T + b
Linear(layer, x) == Tensor([o \in 1..Len(layer.W) |-> Dot(layer.W[o], x) + layer.b[o]])

\* MLP.__init__; net[l + 1] is self.net[l]
MLP_init(dim_in, dim_out, dim_hidden, num_layers, bias, seed) ==
    [dim_in |-> dim_in, dim_out |-> dim_out, dim_hidden |-> dim_hidden,
     num_layers |-> num_layers,
     net |-> Tensor([l \in 1..num_layers |->
                NewLinear(IF l - 1 = 0 THEN dim_in ELSE dim_hidden,
                          IF l - 1 = num_layers - 1 THEN dim_out ELSE dim_hidden,
                          bias, seed + l)])]

\* mutant: the activation follows every layer, the last included
ReluAfter_always(l, num_layers) == TRUE

\* the test `l != self.num_layers - 1` of MLP.forward (l is 0-based)
ReluAfter(l, num_layers) == l # num_layers - 1

RECURSIVE MLP_loop(_, _, _)
MLP_loop(m, x, l) ==
    IF l >= m.num_layers THEN x
    ELSE LET y == Linear(m.net[l + 1], x)
         IN MLP_loop(m, IF ReluAfter(l, m.num_layers) THEN relu(y) ELSE y, l + 1)

\* MLP.forward
MLP_forward(m, x) == MLP_loop(m, x, 0)

\* ------------------------------------------------- encoding.get_encoder
\* get_encoder("tiledgrid" | "hashgrid", ...): (encoder, level_dim * num_levels)
get_grid_encoder(kind, input_dim, level_dim, num_levels, desired_resolution, seed) ==
    [encoder |-> [kind |-> kind, input_dim |-> input_dim, level_dim |-> level_dim,
                  num_levels |-> num_levels, resolution |-> desired_resolution,
                  multires |-> 0, seed |-> seed],
     out_dim |-> level_dim * num_levels]

\* get_encoder("frequency", ...): (encoder, input_dim + input_dim * 2 * multires)
get_freq_encoder(input_dim, multires) ==
    [encoder |-> [kind |-> "frequency", input_dim |-> input_dim, level_dim |-> 0,
                  num_levels |-> 0, resolution |-> 0, multires |-> multires, seed |-> 0],
     out_dim |-> input_dim + input_dim * 2 * multires]

\* A grid encoder looks its (shifted) input up in a table fixed by its
\* parameters: a deterministic function of (parameters, x, bound).
GridHash(enc, x, bound) ==
    SumSeq(Tensor([i \in 1..Len(x) |-> (2 * i - 1) * (x[i] + bound)])) + enc.resolution \div 128

grid_encode(enc, x, bound) ==
    Tensor([j \in 1..(enc.level_dim * enc.num_levels) |->
        LET h == GridHash(enc, x, bound)
        IN ((enc.seed + j * h + h \div 3) % 3) - 1])

\* sin / cos sampled at quarter periods
SinQ(n) == LET r == n % 4 IN IF r = 1 THEN 1 ELSE IF r = 3 THEN -1 ELSE 0
CosQ(n) == SinQ(n + 1)

\* frequency encoding: d, then sin(2^k d), cos(2^k d) for k < multires
freq_encode(enc, d) ==
    Tensor([j \in 1..(enc.input_dim + enc.input_dim * 2 * enc.multires) |->
        IF j <= enc.input_dim THEN d[j]
        ELSE LET q == j - enc.input_dim - 1
                 k == q \div (2 * enc.input_dim)
                 r == q % (2 * enc.input_dim)
             IN IF r < enc.input_dim THEN SinQ((2 ^ k) * d[r + 1])
                ELSE CosQ((2 ^ k) * d[r - enc.input_dim + 1])])

\* ----------------------------------------------------------- HashEncoder
\* HashEncoder.__init__
HashEncoder_init(input_dim, level_dim, num_levels, desired_resolution, output_dim, num_layers, hidden_dim, seed) ==
    LET g == get_grid_encoder("tiledgrid", input_dim, level_dim, num_levels,
                              desired_resolution, seed)
    IN [encoder |-> g.encoder, in_dim |-> g.out_dim,
        mlp |-> MLP_init(g.out_dim, output_dim, hidden_dim, num_layers, FALSE, seed)]

\* HashEncoder.forward of the submodule self[name]: reads the submodule,
\* assigns nothing; returns its output and the network object it leaves.
HashEncoder_forward(self, name, x, bound) ==
    [out  |-> MLP_forward(self[name].mlp, grid_encode(self[name].encoder, x, bound)),
     self |-> self]

\* ----------------------------------------------------------- NeRFNetwork
HasAttr(self, name) == name \in DOMAIN self

\* NeRFNetwork.__init__ (opt and bound are set by NeRFRenderer.__init__)
NeRFNetwork_init(opt, seed) ==
    LET view == get_freq_encoder(3, ModelMultires)
        base ==
          [opt |-> opt, bound |-> opt.bound,
           grid    |-> HashEncoder_init(3, LevelDim, ModelLevels, 512, FeatDim, 2, ModelHidden, seed),
           planeXY |-> HashEncoder_init(2, LevelDim, ModelLevels, 2048, FeatDim, 2, ModelHidden, seed + 1),
           planeYZ |-> HashEncoder_init(2, LevelDim, ModelLevels, 2048, FeatDim, 2, ModelHidden, seed + 2),
           planeXZ |-> HashEncoder_init(2, LevelDim, ModelLevels, 2048, FeatDim, 2, ModelHidden, seed + 3),
           view_encoder |-> view.encoder, view_in_dim |-> view.out_dim,
           view_mlp |-> MLP_init(3 + 4 + view.out_dim, 3, ModelHidden, 3, TRUE, seed + 4)]
        prop0 == get_grid_encoder("hashgrid", 3, LevelDim, ModelLevels, 128, seed + 5)
        prop1 == get_grid_encoder("hashgrid", 3, LevelDim, ModelLevels, 256, seed + 6)
    IN IF ~opt.cuda_ray
       THEN base @@ [prop_encoders |-> <<prop0.encoder, prop1.encoder>>,
                     prop_mlp |-> <<MLP_init(prop0.out_dim, 1, ModelHidden, 2, FALSE, seed + 5),
                                    MLP_init(prop1.out_dim, 1, ModelHidden, 2, FALSE, seed + 6)>>]
       ELSE base

\* mutant: planeYZ and planeXZ receive each other's coordinates
PlaneCoords_swapped(name) ==
    IF name = "planeXY" THEN <<1, 2>>
    ELSE IF name = "planeYZ" THEN <<1, 3>>
    ELSE <<2, 3>>

\* the coordinates x[..., [a, b]] each plane encoder receives (1-based)
PlaneCoords(name) ==
    IF name = "planeXY" THEN <<1, 2>>
    ELSE IF name = "planeYZ" THEN <<2, 3>>
    ELSE <<1, 3>>

Select(x, idx) == Tensor([i \in 1..Len(idx) |-> x[idx[i]]])

CallOf(name, arg, bound) == [mod |-> name, arg |-> arg, bound |-> bound]

\* the three plane evaluations of common_forward, done in the order `ord`
RECURSIVE EvalPlanes(_, _, _, _)
EvalPlanes(self, x, ord, acc) ==
    IF ord = <<>> THEN [self |-> self, feats |-> acc.feats, calls |-> acc.calls]
    ELSE LET name == Head(ord)
             arg  == Select(x, PlaneCoords(name))
             r    == HashEncoder_forward(self, name, arg, self.bound)
         IN EvalPlanes(r.self, x, Tail(ord),
                       [feats |-> acc.feats @@ (name :> r.out),
                        calls |-> Append(acc.calls, CallOf(name, arg, self.bound))])

common_forward_ord(self, x, ord) ==
    LET g == HashEncoder_forward(self, "grid", x, self.bound)
        p == EvalPlanes(g.self, x, ord,
                        [feats |-> ("grid" :> g.out),
                         calls |-> <<CallOf("grid", x, self.bound)>>])
    IN [out   |-> <<p.feats["grid"], p.feats["planeXY"], p.feats["planeYZ"], p.feats["planeXZ"]>>,
        calls |-> p.calls, self |-> p.self]

\* NeRFNetwork.common_forward
common_forward(self, x) == common_forward_ord(self, x, <<"planeXY", "planeYZ", "planeXZ">>)

\* the channels of the summed feature (1-based): f[..., 0], f[..., 1:4], f[..., 4:]
SumFeat(out) == VecAdd(VecAdd(VecAdd(out[1], out[2]), out[3]), out[4])
Diffuse(f) == sigmoid(SubSeq(f, 2, 4))
FSpecular(f) == sigmoid(SubSeq(f, 5, Len(f)))

\* what a call hands back: its status, the returned dict (keys and values),
\* the submodule evaluations it made, and the network object it leaves
Ret(status, keys, sigma, color, specular, groups, feats, calls, self) ==
    [status |-> status, keys |-> keys, sigma |-> sigma, color |-> color,
     specular |-> specular, groups |-> groups, feats |-> feats,
     calls |-> calls, self |-> self]

\* mutant: the 'diffuse' test never succeeds, so 'diffuse' is shaded as 'full'
IsDiffuse_never(shading) == FALSE

\* the test `shading == 'diffuse'`
IsDiffuse(shading) == shading = "diffuse"

\* mutant: the sum of specular and diffuse is returned unclamped
ShadeFull_no_clamp(specular, diffuse) == VecAdd(specular, diffuse)

\* (specular + diffuse).clamp(0, 1)
ShadeFull(specular, diffuse) == clamp(VecAdd(specular, diffuse), 0, Scale)

\* mutant: sigma is read from channel 1 of the summed feature
forward_sigma_channel1(self, x, d, shading) ==
    LET cf         == common_forward(self, x)
        f          == SumFeat(cf.out)
        sigma      == trunc_exp(f[2] - 1)
        diffuse    == Diffuse(f)
        f_specular == FSpecular(f)
        denc       == freq_encode(cf.self.view_encoder, d)
        calls1     == Append(cf.calls, CallOf("view_encoder", d, 0))
        specular   == sigmoid(MLP_forward(cf.self.view_mlp, diffuse \o f_specular \o denc))
        calls2     == Append(calls1, CallOf("view_mlp", diffuse \o f_specular \o denc, 0))
        keys       == {"sigma", "color", "specular"}
    IN IF IsDiffuse(shading)
       THEN Ret("ok", keys, sigma, diffuse, None, <<>>, <<>>, calls1, cf.self)
       ELSE IF shading = "specular"
       THEN Ret("ok", keys, sigma, specular, specular, <<>>, <<>>, calls2, cf.self)
       ELSE Ret("ok", keys, sigma, ShadeFull(specular, diffuse), specular,
                <<>>, <<>>, calls2, cf.self)

\* NeRFNetwork.forward
forward(self, x, d, shading) ==
    LET cf         == common_forward(self, x)
        f          == SumFeat(cf.out)
        sigma      == trunc_exp(f[1] - 1)
        diffuse    == Diffuse(f)
        f_specular == FSpecular(f)
        denc       == freq_encode(cf.self.view_encoder, d)
        calls1     == Append(cf.calls, CallOf("view_encoder", d, 0))
        specular   == sigmoid(MLP_forward(cf.self.view_mlp, diffuse \o f_specular \o denc))
        calls2     == Append(calls1, CallOf("view_mlp", diffuse \o f_specular \o denc, 0))
        keys       == {"sigma", "color", "specular"}
    IN IF IsDiffuse(shading)
       THEN Ret("ok", keys, sigma, diffuse, None, <<>>, <<>>, calls1, cf.self)
       ELSE IF shading = "specular"
       THEN Ret("ok", keys, sigma, specular, specular, <<>>, <<>>, calls2, cf.self)
       ELSE Ret("ok", keys, sigma, ShadeFull(specular, diffuse), specular,
                <<>>, <<>>, calls2, cf.self)

\* mutant: sigma is taken from the summed feature without the -1 bias
density_full_unbiased(self, x) ==
    LET cf == common_forward(self, x)
        f  == SumFeat(cf.out)
    IN Ret("ok", {"sigma"}, trunc_exp(f[1]), None, None, <<>>, <<>>, cf.calls, cf.self)

\* the full spatial path of density (the else branch)
density_full(self, x) ==
    LET cf == common_forward(self, x)
        f  == SumFeat(cf.out)
    IN Ret("ok", {"sigma"}, trunc_exp(f[1] - 1), None, None, <<>>, <<>>, cf.calls, cf.self)

\* the proposal path of density (the if branch)
density_prop(self, x, proposal) ==
    LET e == grid_encode(self.prop_encoders[proposal + 1], x, self.bound)
        o == MLP_forward(self.prop_mlp[proposal + 1], e)
    IN Ret("ok", {"sigma"}, trunc_exp(o[1] - 1), None, None, <<>>, <<>>,
           <<CallOf("prop_encoders", <<proposal>> \o x, self.bound),
             CallOf("prop_mlp", <<proposal>> \o e, 0)>>, self)

Raise(exc, self) == Ret(exc, {}, 0, None, None, <<>>, <<>>, <<>>, self)

\* mutant: the attribute is looked up only where it exists
density_guarded(self, x, proposal) ==
    IF proposal >= 0 /\ HasAttr(self, "prop_encoders") /\ proposal < Len(self.prop_encoders)
    THEN density_prop(self, x, proposal)
    ELSE density_full(self, x)

\* mutant: proposal 0 is not taken for a proposal index
density_from_one(self, x, proposal) ==
    IF ~(proposal > 0) THEN density_full(self, x)
    ELSE IF ~HasAttr(self, "prop_encoders") THEN Raise("AttributeError", self)
    ELSE IF proposal < Len(self.prop_encoders) THEN density_prop(self, x, proposal)
    ELSE density_full(self, x)

\* NeRFNetwork.density.  `proposal >= 0 and proposal < len(self.prop_encoders)`:
\* the right operand, and with it the attribute lookup, is evaluated only
\* when the left one is true.
density(self, x, proposal) ==
    IF ~(proposal >= 0) THEN density_full(self, x)
    ELSE IF ~HasAttr(self, "prop_encoders") THEN Raise("AttributeError", self)
    ELSE IF proposal < Len(self.prop_encoders) THEN density_prop(self, x, proposal)
    ELSE density_full(self, x)

\* mutant: the call re-initialises the grid encoder
apply_total_variation_writes(self, lambda_tv) ==
    Ret("ok", {}, 0, None, None, <<>>, <<>>, <<>>,
        [self EXCEPT !.grid = HashEncoder_init(3, LevelDim, ModelLevels, 512, FeatDim, 2,
                                               ModelHidden, self.grid.encoder.seed + lambda_tv)])

\* NeRFNetwork.apply_total_variation: `pass`
apply_total_variation(self, lambda_tv) ==
    Ret("ok", {}, 0, None, None, <<>>, <<>>, <<>>, self)

\* one parameter group {'params': self.<name>.parameters(), 'lr': lr}
Group(self, name, lr) == [name |-> name, params |-> self[name], lr |-> lr]

\* mutant: the proposal groups are never appended
get_params_short(self, lr) ==
    Ret("ok", {}, 0, None, None,
        << Group(self, "grid", lr), Group(self, "planeXY", lr), Group(self, "planeYZ", lr),
           Group(self, "planeXZ", lr), Group(self, "view_mlp", lr) >>, <<>>, <<>>, self)

\* NeRFNetwork.get_params
get_params(self, lr) ==
    LET params == << Group(self, "grid", lr), Group(self, "planeXY", lr),
                     Group(self, "planeYZ", lr), Group(self, "planeXZ", lr),
                     Group(self, "view_mlp", lr) >>
    IN IF ~self.opt.cuda_ray
       THEN IF HasAttr(self, "prop_encoders") /\ HasAttr(self, "prop_mlp")
            THEN Ret("ok", {}, 0, None, None,
                     params \o << Group(self, "prop_encoders", lr), Group(self, "prop_mlp", lr) >>,
                     <<>>, <<>>, self)
            ELSE Raise("AttributeError", self)
       ELSE Ret("ok", {}, 0, None, None, params, <<>>, <<>>, self)

\* ------------------------------------------------------------ the inputs
\* sample points with coordinates in {-1,0,1} (inside [-bound, bound])
Pt(i) == LET n == (7 * i) % 27
         IN << (n % 3) - 1, ((n \div 3) % 3) - 1, ((n \div 9) % 3) - 1 >>
Points == {Pt(i) : i \in 1..NumPoints}

\* normalized axis directions
Dir(i) == Tensor([k \in 1..3 |-> IF k = ((i - 1) % 3) + 1 THEN (IF i % 2 = 1 THEN 1 ELSE -1) ELSE 0])
Dirs == {Dir(i) : i \in 1..NumDirs}

Shadings == {"full", "diffuse", "specular"}
Proposals == (-MaxProposal)..MaxProposal
Rates == 1..MaxLr
Options == [cuda_ray : BOOLEAN, bound : 1..MaxBound]

\* -------------------------------------------------------------- the state
VARIABLES
    self,       \* the NeRFNetwork object: attributes, submodules, parameters
    last,       \* the last call made on it: operation, arguments, outcome
    built,      \* the arguments the network was constructed with
    mlp,        \* a standalone MLP object
    mlp_in,     \* the argument of its running forward call
    mlp_x,      \* the local x of MLP.forward
    mlp_l,      \* the loop variable l of MLP.forward
    mlp_pc,     \* the position of MLP.forward
    mlp_trace   \* the layer and activation applications it has made

vars == <<self, last, built, mlp, mlp_in, mlp_x, mlp_l, mlp_pc, mlp_trace>>
netvars == <<self, last, built>>
mlpvars == <<mlp, mlp_in, mlp_x, mlp_l, mlp_pc, mlp_trace>>

NoRet == [status |-> "none", keys |-> {}, sigma |-> 0, color |-> None,
          specular |-> None, groups |-> <<>>, feats |-> <<>>, calls |-> <<>>]

NoCall == [op |-> "none", x |-> None, d |-> None, shading |-> "", proposal |-> 0,
           lr |-> 0, ret |-> NoRet]

\* the outcome of a call without the network object it leaves
Outcome(r) == [status |-> r.status, keys |-> r.keys, sigma |-> r.sigma, color |-> r.color,
               specular |-> r.specular, groups |-> r.groups, feats |-> r.feats,
               calls |-> r.calls]

Record(call, r) ==
    /\ self' = r.self
    /\ last' = [call EXCEPT !.ret = Outcome(r)]
    /\ UNCHANGED built
    /\ UNCHANGED mlpvars

MLPOff ==
    /\ mlp = MLP_init(1, 1, 1, 1, FALSE, 0)
    /\ mlp_in = <<>>
    /\ mlp_x = <<>>
    /\ mlp_l = 0
    /\ mlp_pc = "off"
    /\ mlp_trace = <<>>

\* net = NeRFNetwork(opt)
Init ==
    /\ built \in [opt : Options, seed : 1..NumSeeds]
    /\ self = NeRFNetwork_init(built.opt, built.seed)
    /\ last = NoCall
    /\ MLPOff

\* net(x, d, shading)
Forward ==
    \E x \in Points, d \in Dirs, shading \in Shadings :
        Record([NoCall EXCEPT !.op = "forward", !.x = x, !.d = d, !.shading = shading],
               forward(self, x, d, shading))

\* net.density(x, proposal)
Density ==
    \E x \in Points, proposal \in Proposals :
        Record([NoCall EXCEPT !.op = "density", !.x = x, !.proposal = proposal],
               density(self, x, proposal))

\* net.common_forward(x)
CommonForward ==
    \E x \in Points :
        LET cf == common_forward(self, x)
        IN Record([NoCall EXCEPT !.op = "common_forward", !.x = x],
                  Ret("ok", {}, 0, None, None, <<>>, cf.out, cf.calls, cf.self))

\* net.apply_total_variation(lambda_tv)
ApplyTotalVariation ==
    \E lambda_tv \in Rates :
        Record([NoCall EXCEPT !.op = "apply_total_variation", !.lr = lambda_tv],
               apply_total_variation(self, lambda_tv))

\* net.get_params(lr)
GetParams ==
    \E lr \in Rates :
        Record([NoCall EXCEPT !.op = "get_params", !.lr = lr], get_params(self, lr))

Next == Forward \/ Density \/ CommonForward \/ ApplyTotalVariation \/ GetParams

Spec == Init /\ [][Next]_vars

\* ------------------------------------------------- MLP.forward, stepwise
Vectors(n) == [1..n -> (-MaxVal)..MaxVal]

NetOff ==
    /\ built = [opt |-> [cuda_ray |-> TRUE, bound |-> 1], seed |-> 1]
    /\ self = NeRFNetwork_init(built.opt, built.seed)
    /\ last = NoCall

\* m = MLP(dim_in, dim_out, dim_hidden, num_layers, bias); m(x) is entered
InitMLP ==
    /\ NetOff
    /\ \E dim_in \in 1..MaxDim, dim_out \in 1..MaxDim, dim_hidden \in 1..MaxDim,
          num_layers \in 1..MaxLayers, bias \in BOOLEAN, seed \in 1..NumSeeds :
          mlp = MLP_init(dim_in, dim_out, dim_hidden, num_layers, bias, seed)
    /\ mlp_in \in {Tensor(v) : v \in Vectors(mlp.dim_in)}
    /\ mlp_x = mlp_in
    /\ mlp_l = 0
    /\ mlp_pc = "loop"
    /\ mlp_trace = <<>>

Shape(layer) == <<Len(layer.W[1]), Len(layer.W)>>

\* x = self.net[l](x)
MLPLinear ==
    /\ mlp_pc = "loop"
    /\ mlp_l < mlp.num_layers
    /\ mlp_x' = Linear(mlp.net[mlp_l + 1], mlp_x)
    /\ mlp_trace' = Append(mlp_trace, <<"linear", mlp_l, Shape(mlp.net[mlp_l + 1])>>)
    /\ mlp_pc' = "test"
    /\ UNCHANGED <<mlp, mlp_in, mlp_l>>
    /\ UNCHANGED netvars

\* if l != self.num_layers - 1: x = F.relu(x, inplace=True)
MLPRelu ==
    /\ mlp_pc = "test"
    /\ ReluAfter(mlp_l, mlp.num_layers)
    /\ mlp_x' = relu(mlp_x)
    /\ mlp_trace' = Append(mlp_trace, <<"relu", mlp_l, <<Len(mlp_x), Len(mlp_x)>> >>)
    /\ mlp_l' = mlp_l + 1
    /\ mlp_pc' = "loop"
    /\ UNCHANGED <<mlp, mlp_in>>
    /\ UNCHANGED netvars

\* the test fails: on to the next l
MLPNoRelu ==
    /\ mlp_pc = "test"
    /\ ~ReluAfter(mlp_l, mlp.num_layers)
    /\ mlp_l' = mlp_l + 1
    /\ mlp_pc' = "loop"
    /\ UNCHANGED <<mlp, mlp_in, mlp_x, mlp_trace>>
    /\ UNCHANGED netvars

\* return x
MLPReturn ==
    /\ mlp_pc = "loop"
    /\ ~(mlp_l < mlp.num_layers)
    /\ mlp_pc' = "done"
    /\ UNCHANGED <<mlp, mlp_in, mlp_x, mlp_l, mlp_trace>>
    /\ UNCHANGED netvars

NextMLP == MLPLinear \/ MLPRelu \/ MLPNoRelu \/ MLPReturn

SpecMLP == InitMLP /\ [][NextMLP]_vars

\* ================================================================= claims
Returned(op) == last.op = op /\ last.ret.status = "ok"

GroupNames(groups) == [i \in 1..Len(groups) |-> groups[i].name]

\* the four spatial features at x, each computed from its own encoder
SpatialFeat(x) ==
    VecAdd(VecAdd(HashEncoder_forward(self, "grid", x, self.bound).out,
                  HashEncoder_forward(self, "planeXY", <<x[1], x[2]>>, self.bound).out),
           VecAdd(HashEncoder_forward(self, "planeYZ", <<x[2], x[3]>>, self.bound).out,
                  HashEncoder_forward(self, "planeXZ", <<x[1], x[3]>>, self.bound).out))

CalledModules(ret) == {ret.calls[i].mod : i \in 1..Len(ret.calls)}

SpatialModules == {"grid", "planeXY", "planeYZ", "planeXZ"}

\* C1: get_params(lr) returns the groups grid, planeXY, planeYZ, planeXZ,
\* view_mlp in that order, followed by prop_encoders and prop_mlp exactly
\* when cuda_ray was false at construction; every group carries the given
\* lr and the parameters of the module it names.
C1_GetParams ==
    last.op = "get_params" =>
        /\ last.ret.status = "ok"
        /\ GroupNames(last.ret.groups) =
              IF self.opt.cuda_ray
              THEN <<"grid", "planeXY", "planeYZ", "planeXZ", "view_mlp">>
              ELSE <<"grid", "planeXY", "planeYZ", "planeXZ", "view_mlp",
                     "prop_encoders", "prop_mlp">>
        /\ \A i \in 1..Len(last.ret.groups) :
              /\ last.ret.groups[i].lr = last.lr
              /\ last.ret.groups[i].params = self[last.ret.groups[i].name]
        /\ ("prop_mlp" \in {last.ret.groups[i].name : i \in 1..Len(last.ret.groups)})
              <=> HasAttr(self, "prop_mlp")

C1_Witness ==
    /\ Returned("get_params")
    /\ ~self.opt.cuda_ray
    /\ Len(last.ret.groups) = 7
    /\ last.ret.groups[7].params = self.prop_mlp

\* sigma of proposal network p (0-based) at x
PropSigma(p, x) ==
    trunc_exp(MLP_forward(self.prop_mlp[p + 1],
                          grid_encode(self.prop_encoders[p + 1], x, self.bound))[1] - 1)

\* C2: with cuda_ray false, density(x, proposal) takes sigma from proposal
\* network `proposal` (no spatial encoder evaluated) when 0 <= proposal < 2,
\* and from channel 0 of the sum of the four spatial encoders for every
\* other proposal; the result holds sigma only.
C2_DensityPaths ==
    (last.op = "density" /\ ~self.opt.cuda_ray) =>
        /\ last.ret.status = "ok"
        /\ last.ret.keys = {"sigma"}
        /\ Len(self.prop_encoders) = 2
        /\ IF 0 <= last.proposal /\ last.proposal < 2
           THEN /\ last.ret.sigma = PropSigma(last.proposal, last.x)
                /\ CalledModules(last.ret) = {"prop_encoders", "prop_mlp"}
                /\ last.ret.calls[1].arg[1] = last.proposal
                /\ last.ret.calls[2].arg[1] = last.proposal
           ELSE /\ last.ret.sigma = trunc_exp(SpatialFeat(last.x)[1] - 1)
                /\ CalledModules(last.ret) = SpatialModules

C2_Witness ==
    /\ Returned("density")
    /\ ~self.opt.cuda_ray
    /\ last.proposal = 1
    /\ last.ret.sigma # trunc_exp(SpatialFeat(last.x)[1] - 1)
    /\ last.ret.sigma # PropSigma(0, last.x)

\* C3 as stated: with cuda_ray true, density(x, proposal) raises an
\* attribute error for every proposal other than -1, and proposal = -1
\* returns the full-path sigma.
C3_Original ==
    (last.op = "density" /\ self.opt.cuda_ray) =>
        IF last.proposal # -1
        THEN last.ret.status = "AttributeError"
        ELSE /\ last.ret.status = "ok"
             /\ last.ret.sigma = trunc_exp(SpatialFeat(last.x)[1] - 1)

\* C3 amended: with cuda_ray true, density(x, proposal) raises an attribute
\* error for every proposal >= 0, and every negative proposal (the default
\* -1 among them) returns the full-path sigma.
C3_Amended ==
    (last.op = "density" /\ self.opt.cuda_ray) =>
        /\ ~HasAttr(self, "prop_encoders")
        /\ IF last.proposal >= 0
           THEN last.ret.status = "AttributeError" /\ last.ret.keys = {}
           ELSE /\ last.ret.status = "ok"
                /\ last.ret.keys = {"sigma"}
                /\ last.ret.sigma = trunc_exp(SpatialFeat(last.x)[1] - 1)

C3_Witness ==
    /\ last.op = "density"
    /\ self.opt.cuda_ray
    /\ last.proposal > 0
    /\ last.ret.status = "AttributeError"

\* the returned dict of a forward call
Dict(ret) == <<ret.keys, ret.sigma, ret.color, ret.specular>>

\* C4: forward(x, d, 'diffuse') returns color equal to the sigmoid of
\* channels 1-3 of the summed feature and specular None; view_mlp is not
\* evaluated and the returned dict is the same for every d.
C4_Diffuse ==
    (last.op = "forward" /\ last.shading = "diffuse") =>
        /\ last.ret.status = "ok"
        /\ last.ret.color = [k \in 1..3 |-> sigmoid1(SpatialFeat(last.x)[k + 1])]
        /\ last.ret.specular = None
        /\ "view_mlp" \notin CalledModules(last.ret)
        /\ \A d \in Dirs : Dict(forward(self, last.x, d, "diffuse")) = Dict(last.ret)

C4_Witness ==
    /\ Returned("forward")
    /\ last.shading = "diffuse"
    /\ \E k \in 1..3 : last.ret.color[k] \notin {0, Scale}
    /\ Dict(forward(self, last.x, last.d, "full")) # Dict(last.ret)

\* sigmoid(view_mlp(diffuse ++ f_specular ++ encoded d)) at the last call
ViewSpecular ==
    LET f == SpatialFeat(last.x)
    IN sigmoid(MLP_forward(self.view_mlp,
                           [k \in 1..3 |-> sigmoid1(f[k + 1])]
                           \o [k \in 1..4 |-> sigmoid1(f[k + 4])]
                           \o freq_encode(self.view_encoder, last.d)))

\* C5: forward(x, d, 'full') returns color = clamp(diffuse + specular, 0, 1)
\* elementwise: color lies in [0,1] and equals the sum wherever the sum
\* lies in [0,1]; the returned specular is the sigmoid of the view_mlp
\* output, not clamped.
C5_Full ==
    (last.op = "forward" /\ last.shading = "full") =>
        /\ last.ret.status = "ok"
        /\ last.ret.specular = ViewSpecular
        /\ \A k \in 1..3 :
              LET sum == sigmoid1(SpatialFeat(last.x)[k + 1]) + last.ret.specular[k]
              IN /\ last.ret.color[k] >= 0 /\ last.ret.color[k] <= Scale
                 /\ (sum >= 0 /\ sum <= Scale) => last.ret.color[k] = sum
                 /\ sum > Scale => last.ret.color[k] = Scale
                 /\ sum < 0 => last.ret.color[k] = 0

C5_Witness ==
    /\ Returned("forward")
    /\ last.shading = "full"
    /\ \E k \in 1..3 : sigmoid1(SpatialFeat(last.x)[k + 1]) + last.ret.specular[k] > Scale
    /\ \E k \in 1..3 : /\ last.ret.color[k] = sigmoid1(SpatialFeat(last.x)[k + 1]) + last.ret.specular[k]
                       /\ last.ret.color[k] > last.ret.specular[k]
                       /\ last.ret.specular[k] > 0

\* C6: after any sequence of forward, density, common_forward, get_params
\* and apply_total_variation calls the network (its parameters and its set
\* of submodules) is the one that was constructed, and a forward call
\* returns what forward yields for its arguments on the network as
\* constructed: the same sigma, color and specular whenever it is fed again.
C6_Pure ==
    /\ self = NeRFNetwork_init(built.opt, built.seed)
    /\ last.op = "forward" =>
          last.ret = Outcome(forward(NeRFNetwork_init(built.opt, built.seed),
                                     last.x, last.d, last.shading))

C6_Witness ==
    /\ Returned("forward")
    /\ last.shading = "full"
    /\ last.ret.color # last.ret.specular
    /\ DOMAIN self = DOMAIN NeRFNetwork_init(built.opt, built.seed)

\* whether proposal p selects a proposal network of this network
PropPath(p) == HasAttr(self, "prop_encoders") /\ 0 <= p /\ p < Len(self.prop_encoders)

\* the density logit f0 at x: the proposal MLP's single output on the
\* proposal path, channel 0 of the summed feature otherwise
F0At(x, p) ==
    IF PropPath(p)
    THEN MLP_forward(self.prop_mlp[p + 1], grid_encode(self.prop_encoders[p + 1], x, self.bound))[1]
    ELSE SpatialFeat(x)[1]

LastProposal == IF last.op = "density" THEN last.proposal ELSE -1

\* sigma as the last call's operation computes it at another point
SigmaAt(x) ==
    IF last.op = "forward" THEN forward(self, x, last.d, last.shading).sigma
    ELSE density(self, x, last.proposal).sigma

\* C7: the sigma forward and density return is trunc_exp(f0(x) - 1); it is
\* non-negative, and a point with a larger or equal f0 gets a larger or
\* equal sigma.
C7_Sigma ==
    (last.op \in {"forward", "density"} /\ last.ret.status = "ok") =>
        /\ last.ret.sigma = trunc_exp(F0At(last.x, LastProposal) - 1)
        /\ last.ret.sigma >= 0
        /\ \A x \in Points :
              F0At(x, LastProposal) >= F0At(last.x, LastProposal)
                 => SigmaAt(x) >= last.ret.sigma

C7_Witness ==
    /\ Returned("density")
    /\ ~PropPath(last.proposal)
    /\ last.ret.sigma > 0
    /\ F0At(last.x, LastProposal) # 0
    /\ \E x \in Points : /\ F0At(x, LastProposal) > F0At(last.x, LastProposal)
                         /\ SigmaAt(x) > last.ret.sigma

\* the layer and activation applications MLP.forward is to make from layer l on
RECURSIVE ExpectedTrace(_, _)
ExpectedTrace(m, l) ==
    IF l >= m.num_layers THEN <<>>
    ELSE << <<"linear", l, << IF l = 0 THEN m.dim_in ELSE m.dim_hidden,
                              IF l = m.num_layers - 1 THEN m.dim_out ELSE m.dim_hidden >> >> >>
         \o (IF l < m.num_layers - 1
             THEN << <<"relu", l, <<m.dim_hidden, m.dim_hidden>> >> >>
             ELSE <<>>)
         \o ExpectedTrace(m, l + 1)

Affine(layer, x) ==
    [o \in 1..Len(layer.W) |->
        SumSeq([i \in 1..Len(x) |-> layer.W[o][i] * x[i]]) + layer.b[o]]

\* x after the first k layers
RECURSIVE After(_, _, _)
After(m, x, k) ==
    IF k = 0 THEN x
    ELSE LET y == Affine(m.net[k], After(m, x, k - 1))
         IN IF k < m.num_layers THEN [i \in 1..Len(y) |-> IF y[i] > 0 THEN y[i] ELSE 0] ELSE y

\* C8: MLP.forward applies exactly num_layers linear transforms in order,
\* layer 0 from dim_in, the last to dim_out, the others between dim_hidden,
\* with ReLU after every layer but the last; with num_layers = 1 it is one
\* linear transform dim_in -> dim_out and no activation.
C8_MLP ==
    mlp_pc = "done" =>
        /\ mlp_trace = ExpectedTrace(mlp, 0)
        /\ Cardinality({i \in 1..Len(mlp_trace) : mlp_trace[i][1] = "linear"}) = mlp.num_layers
        /\ mlp_x = After(mlp, mlp_in, mlp.num_layers)
        /\ Len(mlp_x) = mlp.dim_out
        /\ mlp.num_layers = 1 =>
              /\ mlp_trace = << <<"linear", 0, <<mlp.dim_in, mlp.dim_out>> >> >>
              /\ mlp_x = Affine(mlp.net[1], mlp_in)

C8_Witness ==
    /\ mlp_pc = "done"
    /\ mlp.num_layers = 1
    /\ \E i \in 1..Len(mlp_x) : mlp_x[i] < 0

PlaneOrders ==
    { <<"planeXY", "planeYZ", "planeXZ">>, <<"planeXY", "planeXZ", "planeYZ">>,
      <<"planeYZ", "planeXY", "planeXZ">>, <<"planeYZ", "planeXZ", "planeXY">>,
      <<"planeXZ", "planeXY", "planeYZ">>, <<"planeXZ", "planeYZ", "planeXY">> }

\* C9: common_forward(x) evaluates grid, planeXY, planeYZ, planeXZ once
\* each with the network's bound, on all coordinates, (0,1), (1,2) and
\* (0,2), and returns the four outputs unsummed in that order; evaluating
\* the three planes in any other order gives the same tuple.
C9_CommonForward ==
    last.op = "common_forward" =>
        LET x == last.x
        IN /\ last.ret.status = "ok"
           /\ last.ret.calls =
                 << CallOf("grid", x, self.bound),
                    CallOf("planeXY", <<x[1], x[2]>>, self.bound),
                    CallOf("planeYZ", <<x[2], x[3]>>, self.bound),
                    CallOf("planeXZ", <<x[1], x[3]>>, self.bound) >>
           /\ last.ret.feats =
                 << HashEncoder_forward(self, "grid", x, self.bound).out,
                    HashEncoder_forward(self, "planeXY", <<x[1], x[2]>>, self.bound).out,
                    HashEncoder_forward(self, "planeYZ", <<x[2], x[3]>>, self.bound).out,
                    HashEncoder_forward(self, "planeXZ", <<x[1], x[3]>>, self.bound).out >>
           /\ \A ord \in PlaneOrders : common_forward_ord(self, x, ord).out = last.ret.feats

C9_Witness ==
    /\ Returned("common_forward")
    /\ Cardinality({last.x[1], last.x[2], last.x[3]}) = 3
    /\ Cardinality({last.ret.feats[i] : i \in 1..4}) = 4

\* C10 as stated: density(x, proposal) with a proposal that is no valid
\* proposal index returns the sigma forward(x, d, shading) returns, for
\* every d and shading.
C10_Original ==
    (last.op = "density" /\ ~PropPath(last.proposal)) =>
        /\ last.ret.status = "ok"
        /\ \A d \in Dirs, shading \in Shadings :
              last.ret.sigma = forward(self, last.x, d, shading).sigma

\* C10 amended: the same, for the calls that return: every proposal that is
\* no valid index on a network built with cuda_ray false, every negative
\* proposal on one built with cuda_ray true (where proposal >= 0 raises an
\* attribute error and returns no sigma).
C10_Amended ==
    (last.op = "density" /\ ~PropPath(last.proposal)) =>
        IF self.opt.cuda_ray /\ last.proposal >= 0
        THEN last.ret.status = "AttributeError" /\ last.ret.keys = {}
        ELSE /\ last.ret.status = "ok"
             /\ \A d \in Dirs, shading \in Shadings :
                   last.ret.sigma = forward(self, last.x, d, shading).sigma

C10_Witness ==
    /\ Returned("density")
    /\ ~self.opt.cuda_ray
    /\ last.proposal >= 2
    /\ last.ret.sigma = forward(self, last.x, Dir(1), "specular").sigma
    /\ last.ret.sigma # density(self, last.x, 0).sigma

====
